---------------------------- MODULE Spec2Model ----------------------------
(***************************************************************************)
(* Model of src/scrape_jobs.py: the fetcher with retries, the paginated    *)
(* ARL adapter, the two RSS adapters' per-entry logic, the field-inference *)
(* helpers and the deduplication pass.                                     *)
(*                                                                         *)
(* Text is modelled by TLA+ strings, handled character by character.       *)
(* TLA+ strings are ASCII: U+2014 (em dash) is written "^" and U+2013      *)
(* (en dash) is written "~"; no input alphabet uses these two characters   *)
(* for anything else.                                                      *)
(***************************************************************************)
EXTENDS Integers, Sequences, FiniteSets, TLC

VARIABLES
    \* ---- fetch (one call at a time; the program is sequential)
    fstate,      \* "idle" | "running" | "returned" | "raised"
    furl,        \* the url of the current / last call
    attempt,     \* the loop variable of fetch
    flog,        \* the requests and sleeps of the current / last call, in order
    last_err,    \* fetch's last_err
    \* ---- scrape_arl
    pc,          \* position of the adapter that is running
    max_pages,   \* scrape_arl's parameter
    url,         \* current list page url, NONE when there is none
    pages,       \* pages counter
    postings,    \* stubs of the current list page
    next_url,    \* next_url of the current list page
    idx,         \* position in postings (1-based)
    rows,        \* the rows collected by the running adapter / dedupe input
    listCalls,   \* history: number of fetch calls made for list pages
    listFailed,  \* history: a list page fetch raised
    \* ---- feeds
    entries,     \* the entries of the feed being processed
    max_items,   \* the max_items parameter of the feed adapter
    \* ---- dedupe_rows
    uniq,        \* the dict, as a sequence of [key, row] in insertion order
    out,         \* the list returned by dedupe_rows
    slot,        \* history: slot[i] is the position in uniq row i went to
    \* ---- pure helpers
    text,        \* the input text
    result       \* the value returned

vars == <<fstate, furl, attempt, flog, last_err, pc, max_pages, url, pages,
          postings, next_url, idx, rows, listCalls, listFailed, entries,
          max_items, uniq, out, slot, text, result>>

fetchVars == <<fstate, furl, attempt, flog, last_err>>
arlVars == <<max_pages, url, pages, postings, next_url, idx, listCalls, listFailed>>
feedVars == <<entries, max_items>>
dedupeVars == <<uniq, out, slot>>
pureVars == <<text, result>>

NONE == "<None>"

-----------------------------------------------------------------------------
(* Characters and strings                                                  *)

Chr(s, i) == SubSeq(s, i, i)

From(s, i) == SubSeq(s, i, Len(s))

Take(s, n) == IF Len(s) <= n THEN s ELSE SubSeq(s, 1, n)

UPPER == "ABCDEFGHIJKLMNOPQRSTUVWXYZ"

LOWER == "abcdefghijklmnopqrstuvwxyz"

DIGITS == "0123456789"

UpperSet == {Chr(UPPER, k) : k \in 1..Len(UPPER)}

LowerSet == {Chr(LOWER, k) : k \in 1..Len(LOWER)}

DigitSet == {Chr(DIGITS, k) : k \in 1..Len(DIGITS)}

IsUpper(c) == c \in UpperSet

IsLower(c) == c \in LowerSet

IsDigit(c) == c \in DigitSet

\* \s of the re module, on the characters the inputs use
IsSpace(c) == c \in {" ", "\t", "\n", "\r", "\f"}

\* \w of the re module, on the characters the inputs use
IsWord(c) == IsUpper(c) \/ IsLower(c) \/ IsDigit(c) \/ c = "_"

LowerMap == [c \in UpperSet |-> Chr(LOWER, CHOOSE k \in 1..Len(UPPER) : Chr(UPPER, k) = c)]

LowerChr(c) == IF IsUpper(c) THEN LowerMap[c] ELSE c

RECURSIVE lower(_)
\* str.lower()
lower(s) == IF s = "" THEN "" ELSE LowerChr(Chr(s, 1)) \o lower(From(s, 2))

\* p in s
Contains(s, p) ==
    \E i \in 1..(Len(s) - Len(p) + 1) : SubSeq(s, i, i + Len(p) - 1) = p

StartsWith(s, p) == Len(p) <= Len(s) /\ SubSeq(s, 1, Len(p)) = p

RECURSIVE lstrip(_)
lstrip(s) == IF s # "" /\ IsSpace(Chr(s, 1)) THEN lstrip(From(s, 2)) ELSE s

RECURSIVE rstrip(_)
rstrip(s) ==
    IF s # "" /\ IsSpace(Chr(s, Len(s))) THEN rstrip(SubSeq(s, 1, Len(s) - 1)) ELSE s

\* str.strip()
strip(s) == lstrip(rstrip(s))

RECURSIVE collapse(_)
\* re.sub(r"\s+", " ", s)
collapse(s) ==
    IF s = "" THEN ""
    ELSE IF IsSpace(Chr(s, 1)) THEN " " \o collapse(lstrip(s))
    ELSE Chr(s, 1) \o collapse(From(s, 2))

clean_text(s) == strip(collapse(s))

RECURSIVE replaceChr(_, _, _)
\* str.replace(a, b) for a single character a
replaceChr(s, a, b) ==
    IF s = "" THEN ""
    ELSE (IF Chr(s, 1) = a THEN b ELSE Chr(s, 1)) \o replaceChr(From(s, 2), a, b)

EM_DASH == "^"

EN_DASH == "~"

canonicalize(s0) ==
    LET s1 == lower(clean_text(s0))
        s2 == replaceChr(replaceChr(s1, EM_DASH, "-"), EN_DASH, "-")
    IN  strip(collapse(s2))

RECURSIVE Repeat(_, _)
Repeat(s, n) == IF n = 0 THEN "" ELSE s \o Repeat(s, n - 1)

RECURSIVE Concat(_)
\* the concatenation of a sequence of strings
Concat(ss) == IF ss = <<>> THEN "" ELSE Head(ss) \o Concat(Tail(ss))

\* the sequences over S of length 0..n
SeqsUpTo(S, n) == UNION {[1..k -> S] : k \in 0..n}

-----------------------------------------------------------------------------
(* Field inference                                                         *)

STATE_ABBR == {
    "AL","AK","AZ","AR","CA","CO","CT","DE","FL","GA","HI","ID","IL","IN","IA","KS",
    "KY","LA","ME","MD","MA","MI","MN","MS","MO","MT","NE","NV","NH","NJ","NM","NY",
    "NC","ND","OH","OK","OR","PA","RI","SC","SD","TN","TX","UT","VT","VA","WA","WV",
    "WI","WY","DC"}

\* position i starts a match of \b[A-Z]{2}\b in s
TokenAt(s, i) ==
    /\ i + 1 <= Len(s)
    /\ IsUpper(Chr(s, i)) /\ IsUpper(Chr(s, i + 1))
    /\ (i = 1 \/ ~IsWord(Chr(s, i - 1)))
    /\ (i + 1 = Len(s) \/ ~IsWord(Chr(s, i + 2)))

\* re.search(r"\b([A-Z]{2})\b", s): the leftmost match, 0 when there is none
SearchToken(s) ==
    LET P == {i \in 1..Len(s) : TokenAt(s, i)}
    IN  IF P = {} THEN 0 ELSE CHOOSE i \in P : \A j \in P : i <= j

extract_state(s) ==
    LET m == SearchToken(s)
    IN  IF m # 0 /\ SubSeq(s, m, m + 1) \in STATE_ABBR
        THEN SubSeq(s, m, m + 1)
        ELSE ""

infer_remote_type_remote_first(s) ==
    LET t == lower(s)
    IN  IF Contains(t, "fully remote") \/ Contains(t, "100% remote") THEN "Remote"
        ELSE IF Contains(t, "remote") THEN "Remote"
        ELSE IF Contains(t, "hybrid") THEN "Hybrid"
        ELSE IF Contains(t, "on-site") \/ Contains(t, "onsite") \/ Contains(t, "in person")
             THEN "Onsite"
        ELSE ""

infer_remote_type(s) ==
    LET t == lower(s)
    IN  IF Contains(t, "fully remote") \/ Contains(t, "100% remote") THEN "Remote"
        ELSE IF Contains(t, "remote") /\ ~Contains(t, "hybrid") THEN "Remote"
        ELSE IF Contains(t, "hybrid") THEN "Hybrid"
        ELSE IF Contains(t, "on-site") \/ Contains(t, "onsite") \/ Contains(t, "in person")
             THEN "Onsite"
        ELSE ""

-----------------------------------------------------------------------------
(* JobRow                                                                  *)

JobRow(title, organization, state, sector, remote_type, date_posted, description, apply_url) ==
    [title |-> title, organization |-> organization, state |-> state,
     sector |-> sector, remote_type |-> remote_type,
     salary_min |-> "", salary_max |-> "",
     date_posted |-> date_posted, description |-> description,
     apply_url |-> apply_url]

TITLE_MAX == 255

DESC_MAX == 4000

-----------------------------------------------------------------------------
(* fetch                                                                   *)

\* what one requests.get + raise_for_status can do: a 2xx response, a
\* non-2xx response (HTTPError), a transport error
Responses == {"200", "503", "timeout"}

\* range(1, 4)
LAST_ATTEMPT == 3

BackoffConstant(a) == 2

\* time.sleep(2 ** attempt)
Backoff(a) == 2 ^ a

Get(a) == [op |-> "get", attempt |-> a]

Sleep(secs) == [op |-> "sleep", secs |-> secs]

\* the call fetch(u): the state at the top of its first iteration
CallFetch(u) ==
    /\ fstate' = "running"
    /\ furl' = u
    /\ attempt' = 1
    /\ flog' = <<>>
    /\ last_err' = NONE

\* one iteration of the for loop: the request, and the except branch
FetchAttempt ==
    /\ fstate = "running"
    /\ attempt <= LAST_ATTEMPT
    /\ \E resp \in Responses :
          IF resp = "200"
          THEN /\ flog' = Append(flog, Get(attempt))
               /\ fstate' = "returned"
               /\ UNCHANGED <<attempt, last_err>>
          ELSE /\ flog' = flog \o <<Get(attempt), Sleep(Backoff(attempt))>>
               /\ last_err' = resp
               /\ attempt' = attempt + 1
               /\ UNCHANGED fstate
    /\ UNCHANGED <<furl, pc, arlVars, rows, feedVars, dedupeVars, pureVars>>

\* the loop is exhausted: raise last_err
FetchRaise ==
    /\ fstate = "running"
    /\ attempt > LAST_ATTEMPT
    /\ fstate' = "raised"
    /\ UNCHANGED <<furl, attempt, flog, last_err>>
    /\ UNCHANGED <<pc, arlVars, rows, feedVars, dedupeVars, pureVars>>

-----------------------------------------------------------------------------
(* The ARL site: list pages and detail pages                               *)

ARL_START_URL == "https://www.arl.org/jobs/job-listings/"

ARL_PAGE2 == "https://www.arl.org/jobs/job-listings/page/2/"

D1 == "https://www.arl.org/jobs/1/"

D2 == "https://www.arl.org/jobs/2/"

US_STATE_TO_ABBR ==
    {<<"Alabama","AL">>, <<"Alaska","AK">>, <<"Arizona","AZ">>, <<"Arkansas","AR">>,
     <<"California","CA">>, <<"Colorado","CO">>, <<"Connecticut","CT">>,
     <<"Delaware","DE">>, <<"District of Columbia","DC">>, <<"Florida","FL">>,
     <<"Georgia","GA">>, <<"Hawaii","HI">>, <<"Idaho","ID">>, <<"Illinois","IL">>,
     <<"Indiana","IN">>, <<"Iowa","IA">>, <<"Kansas","KS">>, <<"Kentucky","KY">>,
     <<"Louisiana","LA">>, <<"Maine","ME">>, <<"Maryland","MD">>,
     <<"Massachusetts","MA">>, <<"Michigan","MI">>, <<"Minnesota","MN">>,
     <<"Mississippi","MS">>, <<"Missouri","MO">>, <<"Montana","MT">>,
     <<"Nebraska","NE">>, <<"Nevada","NV">>, <<"New Hampshire","NH">>,
     <<"New Jersey","NJ">>, <<"New Mexico","NM">>, <<"New York","NY">>,
     <<"North Carolina","NC">>, <<"North Dakota","ND">>, <<"Ohio","OH">>,
     <<"Oklahoma","OK">>, <<"Oregon","OR">>, <<"Pennsylvania","PA">>,
     <<"Rhode Island","RI">>, <<"South Carolina","SC">>, <<"South Dakota","SD">>,
     <<"Tennessee","TN">>, <<"Texas","TX">>, <<"Utah","UT">>, <<"Vermont","VT">>,
     <<"Virginia","VA">>, <<"Washington","WA">>, <<"West Virginia","WV">>,
     <<"Wisconsin","WI">>, <<"Wyoming","WY">>}

\* US_STATE_TO_ABBR.get(name, "")
StateAbbrOf(name) ==
    IF \E e \in US_STATE_TO_ABBR : e[1] = name
    THEN (CHOOSE e \in US_STATE_TO_ABBR : e[1] = name)[2]
    ELSE ""

\* the first index of p in s, 0 when there is none
Find(s, p) ==
    LET P == {i \in 1..(Len(s) - Len(p) + 1) : SubSeq(s, i, i + Len(p) - 1) = p}
    IN  IF P = {} THEN 0 ELSE CHOOSE i \in P : \A j \in P : i <= j

JOB_LOCATION == "Job Location:"

\* [A-Za-z ]
IsNameChr(c) == IsUpper(c) \/ IsLower(c) \/ c = " "

RECURSIVE NameRun(_)
\* the longest prefix of s made of [A-Za-z ]
NameRun(s) ==
    IF s # "" /\ IsNameChr(Chr(s, 1)) THEN Chr(s, 1) \o NameRun(From(s, 2)) ELSE ""

\* group 1 of re.match(r"Job Location:\s*([A-Za-z ]+)", s) for s starting
\* with the label, NONE when it does not match
LocationGroupAt(s) ==
    LET rest == From(s, Len(JOB_LOCATION) + 1)
        tail == lstrip(rest)
    IN  IF NameRun(tail) # "" THEN NameRun(tail)
        ELSE IF tail # rest /\ Chr(rest, Len(rest) - Len(tail)) = " " THEN " "
        ELSE NONE

\* group 1 of re.search(r"Job Location:\s*([A-Za-z ]+)", s), NONE without a match
LocationGroup(s) ==
    LET P == {i \in 1..Len(s) :
                 /\ StartsWith(From(s, i), JOB_LOCATION)
                 /\ LocationGroupAt(From(s, i)) # NONE}
    IN  IF P = {} THEN NONE
        ELSE LocationGroupAt(From(s, CHOOSE i \in P : \A j \in P : i <= j))

\* the organization parse_arl_list_page reads from the text of one <li>
StubOrg(title, t) ==
    IF Contains(t, JOB_LOCATION)
    THEN LET before == SubSeq(t, 1, Find(t, JOB_LOCATION) - 1)
             cut == IF StartsWith(before, title)
                    THEN strip(From(before, Len(title) + 1))
                    ELSE before
         IN  IF clean_text(cut) # "" THEN clean_text(cut) ELSE "Unknown"
    ELSE "Unknown"

\* the state parse_arl_list_page reads from the text of one <li>
StubState(t) ==
    LET g == LocationGroup(t)
    IN  IF g = NONE THEN ""
        ELSE IF lower(clean_text(g)) \in {"washington dc", "district of columbia"}
             THEN "DC"
        ELSE StateAbbrOf(clean_text(g))

\* one <li> of a list page: the text of its <h3> (NONE without one), the href
\* of its "Read more" link (NONE without one; hrefs are absolute, so urljoin
\* returns them), and its whole text
Li(h3, readmore, t) == [h3 |-> h3, readmore |-> readmore, text |-> t]

RECURSIVE Stubs(_)
\* the postings list of parse_arl_list_page, before its de-duplication
Stubs(items) ==
    IF items = <<>> THEN <<>>
    ELSE LET li == Head(items)
             title == clean_text(li.h3)
             t == clean_text(li.text)
         IN  IF li.h3 = NONE \/ li.readmore = NONE
             THEN Stubs(Tail(items))
             ELSE <<[title |-> title, org |-> StubOrg(title, t),
                     state |-> StubState(t), durl |-> li.readmore]>>
                  \o Stubs(Tail(items))

RECURSIVE DedupeByUrl(_, _)
\* "De-dupe by detail URL": the first stub of each url, in order
DedupeByUrl(stubs, seen) ==
    IF stubs = <<>> THEN <<>>
    ELSE IF Head(stubs).durl \in seen THEN DedupeByUrl(Tail(stubs), seen)
    ELSE <<Head(stubs)>> \o DedupeByUrl(Tail(stubs), seen \cup {Head(stubs).durl})

\* html is [items, next]: the <li> elements in document order and the href
\* of the first link whose text is "Next >>" (NONE without one)
parse_arl_list_page(html) ==
    [out |-> DedupeByUrl(Stubs(html.items), {}), next_url |-> html.next]

LI_ARCHIVIST ==
    Li(" Archivist ", D1, "Archivist  State University Job Location: New York | Read more")

LI_NOHEADING == Li("  ", D2, "Job Location: Washington DC. Read more")

LI_NOLINK == Li("Curator", NONE, "Curator Museum Job Location: Ohio")

LI_MENU == Li(NONE, D2, "Read more about ARL")

\* the list pages the site may serve
ListPages ==
    {[items |-> it, next |-> nx] :
        it \in {<<>>, <<LI_ARCHIVIST>>, <<LI_MENU, LI_NOHEADING, LI_NOLINK, LI_ARCHIVIST, LI_NOHEADING>>},
        nx \in {NONE, ARL_START_URL, ARL_PAGE2}}

\* the text of the main container of the detail page at u
DetailMain(u) ==
    IF u = D1 THEN "Share Tweet  Archivist. Hybrid or remote schedule. Print"
    ELSE "Fully remote position"

JUNK_PHRASES == <<"share", "tweet", "email", "print", "facebook", "linkedin">>

RECURSIVE RemoveWord(_, _, _)
\* re.sub(rf"\b{w}\b", "", s, flags=re.IGNORECASE); prev is the character
\* before s, "" at the start of the text
RemoveWord(s, w, prev) ==
    IF s = "" THEN ""
    ELSE IF /\ Len(w) <= Len(s)
            /\ lower(SubSeq(s, 1, Len(w))) = w
            /\ ~IsWord(prev) \/ prev = ""
            /\ Len(s) = Len(w) \/ ~IsWord(Chr(s, Len(w) + 1))
         THEN RemoveWord(From(s, Len(w) + 1), w, Chr(s, Len(w)))
         ELSE Chr(s, 1) \o RemoveWord(From(s, 2), w, Chr(s, 1))

RECURSIVE RemoveWords(_, _)
RemoveWords(s, ws) ==
    IF ws = <<>> THEN s ELSE RemoveWords(RemoveWord(s, Head(ws), ""), Tail(ws))

clean_description(s) == strip(collapse(RemoveWords(s, JUNK_PHRASES)))

SourceNote(u) == "Source: " \o u

\* main is the text of the page's main container
parse_arl_detail_page(main, u) ==
    Take(clean_description(clean_text(main)), DESC_MAX) \o "\n\n" \o SourceNote(u)

-----------------------------------------------------------------------------
(* Values of the variables a specification does not use                    *)

IdleFetch ==
    /\ fstate = "idle" /\ furl = NONE /\ attempt = 0 /\ flog = <<>> /\ last_err = NONE

IdleArl ==
    /\ max_pages = 0 /\ url = NONE /\ pages = 0 /\ postings = <<>> /\ next_url = NONE
    /\ idx = 0 /\ listCalls = 0 /\ listFailed = FALSE

IdleFeeds == entries = <<>> /\ max_items = 0

IdleDedupe == uniq = <<>> /\ out = <<>> /\ slot = <<>>

IdlePure == text = "" /\ result = NONE

\* parse_arl_list_page on each page of the site, computed once
ParsedListPage == [html \in ListPages |-> parse_arl_list_page(html)]

\* parse_arl_detail_page on each detail page of the site, computed once
DetailDesc == [u \in {D1, D2} |-> parse_arl_detail_page(DetailMain(u), u)]

-----------------------------------------------------------------------------
(* scrape_arl                                                              *)

MaxPagesBound == 2

\* rows.append(JobRow(...)) of scrape_arl for stub st and description desc
ArlRow(st, desc) ==
    JobRow(Take(st.title, TITLE_MAX),
           IF st.org # "" THEN Take(st.org, TITLE_MAX) ELSE "Unknown",
           st.state, "Academic", infer_remote_type(desc), "",
           IF desc # "" THEN desc ELSE SourceNote(st.durl),
           st.durl)

\* the stubs the list pages of the site yield
SiteStubs == UNION {{ParsedListPage[h].out[i] : i \in 1..Len(ParsedListPage[h].out)} : h \in ListPages}

\* the row of each stub of the site when its detail page is fetched,
\* computed once
ArlRowFetched == [st \in SiteStubs |-> ArlRow(st, DetailDesc[st.durl])]

InitArl ==
    /\ pc = "arl_loop"
    /\ max_pages \in 0..MaxPagesBound
    /\ url = ARL_START_URL /\ pages = 0 /\ rows = <<>>
    /\ postings = <<>> /\ next_url = NONE /\ idx = 0
    /\ listCalls = 0 /\ listFailed = FALSE
    /\ IdleFeeds /\ IdleFetch /\ IdleDedupe /\ IdlePure

WhileCondOffByOne == url # NONE /\ pages <= max_pages

\* while url and pages < max_pages
WhileCond == url # NONE /\ pages < max_pages

\* the while condition is true: pages += 1; fetch(url)
ArlNextPage ==
    /\ pc = "arl_loop"
    /\ WhileCond
    /\ pages' = pages + 1
    /\ listCalls' = listCalls + 1
    /\ CallFetch(url)
    /\ pc' = "arl_list"
    /\ UNCHANGED <<max_pages, url, postings, next_url, idx, listFailed, rows,
                   feedVars, dedupeVars, pureVars>>

\* the while condition is false: return rows
ArlReturn ==
    /\ pc = "arl_loop"
    /\ ~WhileCond
    /\ pc' = "done"
    /\ UNCHANGED <<fetchVars, arlVars, rows, feedVars, dedupeVars, pureVars>>

\* the for loop over postings, from position i: fetch the detail page of
\* stub i, or leave the loop and run url = next_url
ArlForFrom(ps, nx, i) ==
    IF i <= Len(ps)
    THEN /\ idx' = i
         /\ CallFetch(ps[i].durl)
         /\ pc' = "arl_detail"
         /\ UNCHANGED url
    ELSE /\ idx' = i
         /\ url' = nx
         /\ pc' = "arl_loop"
         /\ UNCHANGED fetchVars

\* fetch(url) returned: parse the list page and enter the for loop
ArlListOk ==
    /\ pc = "arl_list" /\ fstate = "returned"
    /\ \E html \in ListPages :
          LET parsed == ParsedListPage[html]
          IN  /\ postings' = parsed.out
              /\ next_url' = parsed.next_url
              /\ ArlForFrom(parsed.out, parsed.next_url, 1)
    /\ UNCHANGED <<max_pages, pages, listCalls, listFailed, rows,
                   feedVars, dedupeVars, pureVars>>

ArlListFailPropagates ==
    /\ pc = "arl_list" /\ fstate = "raised"
    /\ pc' = "raised"
    /\ listFailed' = TRUE
    /\ UNCHANGED <<fetchVars, max_pages, url, pages, postings, next_url, idx,
                   listCalls, rows, feedVars, dedupeVars, pureVars>>

\* fetch(url) raised: except Exception: break, then return rows
ArlListFail ==
    /\ pc = "arl_list" /\ fstate = "raised"
    /\ pc' = "done"
    /\ listFailed' = TRUE
    /\ UNCHANGED <<fetchVars, max_pages, url, pages, postings, next_url, idx,
                   listCalls, rows, feedVars, dedupeVars, pureVars>>

\* fetch(durl) returned: the row carries the parsed description
ArlDetailOk ==
    /\ pc = "arl_detail" /\ fstate = "returned"
    /\ rows' = Append(rows, ArlRowFetched[postings[idx]])
    /\ ArlForFrom(postings, next_url, idx + 1)
    /\ UNCHANGED <<max_pages, pages, postings, next_url, listCalls, listFailed,
                   feedVars, dedupeVars, pureVars>>

ArlDetailFailDrops ==
    /\ pc = "arl_detail" /\ fstate = "raised"
    /\ ArlForFrom(postings, next_url, idx + 1)
    /\ UNCHANGED <<rows, max_pages, pages, postings, next_url, listCalls, listFailed,
                   feedVars, dedupeVars, pureVars>>

\* fetch(durl) raised: except Exception leaves desc = "", and the row is
\* appended all the same
ArlDetailFail ==
    /\ pc = "arl_detail" /\ fstate = "raised"
    /\ rows' = Append(rows, ArlRow(postings[idx], ""))
    /\ ArlForFrom(postings, next_url, idx + 1)
    /\ UNCHANGED <<max_pages, pages, postings, next_url, listCalls, listFailed,
                   feedVars, dedupeVars, pureVars>>

NextArl ==
    \/ ArlNextPage
    \/ ArlReturn
    \/ FetchAttempt
    \/ FetchRaise
    \/ ArlListOk
    \/ ArlListFail
    \/ ArlDetailOk
    \/ ArlDetailFail

\* the program is sequential and runs until it returns: a step that can be
\* taken is taken
SpecArl == InitArl /\ [][NextArl]_vars /\ WF_vars(NextArl)

\* C1: a fetch call whose every attempt fails makes exactly 3 requests, each
\* followed by a backoff sleep, the sleeps strictly increasing, and raises
\* only after them; a call whose first attempt gets a 2xx response returns
\* after that one request, with no sleep.
C1_FetchRetries ==
    /\ Len(SelectSeq(flog, LAMBDA e : e.op = "get")) <= LAST_ATTEMPT
    /\ fstate = "raised" =>
          /\ Len(flog) = 2 * LAST_ATTEMPT
          /\ \A k \in 1..LAST_ATTEMPT :
                /\ flog[2 * k - 1] = Get(k)
                /\ flog[2 * k].op = "sleep"
                /\ flog[2 * k].secs > 0
          /\ \A k \in 1..(LAST_ATTEMPT - 1) : flog[2 * k].secs < flog[2 * k + 2].secs
          /\ last_err \in Responses \ {"200"}
    /\ (fstate = "returned" /\ attempt = 1) => flog = <<Get(1)>>

C1_Witness == fstate = "raised" /\ Len(flog) = 6 /\ pc = "arl_detail"

\* C2 as stated: the adapter stops only at a page with no next link or when
\* the page counter has reached max_pages.
C2_StopsAtLastPageOrCeiling ==
    pc = "done" => (url = NONE \/ pages >= max_pages)

\* C2, amended: scrape_arl always terminates and makes at most max_pages list
\* page fetches; it asks for a list page only while there is a url and the
\* counter is below max_pages, and when it has stopped, the last page had no
\* next link, or the counter has reached max_pages, or a list page fetch
\* failed.
C2_Terminates ==
    /\ <>(pc = "done")
    /\ [](listCalls <= max_pages /\ pages = listCalls)
    /\ [][listCalls' # listCalls =>
            (url # NONE /\ pages < max_pages /\ ~listFailed /\ listCalls' = listCalls + 1)]_vars
    /\ [](pc = "done" => (url = NONE \/ pages >= max_pages \/ listFailed))

C2_Witness ==
    /\ pc = "done" /\ max_pages = MaxPagesBound /\ pages = max_pages
    /\ url # NONE /\ ~listFailed /\ Len(rows) > 0

C4_ListFailureStops ==
    [][/\ (pc = "arl_list" /\ fstate = "raised") =>
            (pc' = "done" /\ rows' = rows /\ flog' = flog)
       /\ pc = "done" => UNCHANGED vars
       /\ pc' # "raised"
      ]_vars

C4_Witness == pc = "done" /\ listFailed /\ Len(rows) > 0 /\ url # NONE

-----------------------------------------------------------------------------
(* Feed entries and the title heuristics of the RSS adapters               *)

\* the last index of p in s, 0 when there is none
FindLast(s, p) ==
    LET P == {i \in 1..(Len(s) - Len(p) + 1) : SubSeq(s, i, i + Len(p) - 1) = p}
    IN  IF P = {} THEN 0 ELSE CHOOSE i \in P : \A j \in P : i >= j

\* s matches \s*([A-Z]{2})\s*:\s*(.*)$ : <<group 1, group 2>>, <<>> otherwise
StatePrefixTail(s) ==
    LET a == lstrip(s)
        b == lstrip(From(a, 3))
    IN  IF Len(a) >= 2 /\ IsUpper(Chr(a, 1)) /\ IsUpper(Chr(a, 2)) /\ StartsWith(b, ":")
        THEN <<SubSeq(a, 1, 2), lstrip(From(b, 2))>>
        ELSE <<>>

\* re.match(r"^.*,\s*([A-Z]{2})\s*:\s*(.*)$", t): the greedy .* ends at the
\* last comma after which the rest matches; <<group 1, group 2>> or <<>>
MatchCityState(t) ==
    LET P == {i \in 1..Len(t) : Chr(t, i) = "," /\ StatePrefixTail(From(t, i + 1)) # <<>>}
    IN  IF P = {} THEN <<>>
        ELSE StatePrefixTail(From(t, 1 + CHOOSE i \in P : \A j \in P : i >= j))

REMOTE_TAGS == <<"remote", "hybrid", "onsite", "on-site", "in person">>

\* tag, at the start of t, is followed by \s*:
TagMatches(t, tag) ==
    /\ Len(tag) <= Len(t)
    /\ lower(SubSeq(t, 1, Len(tag))) = tag
    /\ StartsWith(lstrip(From(t, Len(tag) + 1)), ":")

\* re.sub(r"^(remote|hybrid|onsite|on-site|in person)\s*:\s*", "", t, flags=re.I)
StripRemoteTag(t) ==
    LET K == {k \in 1..Len(REMOTE_TAGS) : TagMatches(t, REMOTE_TAGS[k])}
    IN  IF K = {} THEN t
        ELSE LET k == CHOOSE k \in K : \A j \in K : k <= j
             IN  lstrip(From(lstrip(From(t, Len(REMOTE_TAGS[k]) + 1)), 2))

\* returns [title, org, state]
parse_archivesgig_title(raw_title) ==
    LET t0 == clean_text(raw_title)
        m == MatchCityState(t0)
        hit == m # <<>> /\ m[1] \in STATE_ABBR
        t == StripRemoteTag(IF hit THEN m[2] ELSE t0)
        c == FindLast(t, ", ")
    IN  [title |-> clean_text(IF c = 0 THEN t ELSE SubSeq(t, 1, c - 1)),
         org |-> clean_text(IF c = 0 THEN "" ELSE From(t, c + 2)),
         state |-> IF hit THEN m[1] ELSE ""]

SEPARATORS == <<" ^ ", " - ", " ~ ">>

ORG_MAX == 80

RECURSIVE SplitFrom(_, _)
\* the for loop of split_title_org from separator k on
SplitFrom(t, k) ==
    IF k > Len(SEPARATORS) THEN [title |-> t, org |-> ""]
    ELSE LET sep == SEPARATORS[k]
             c == Find(t, sep)
             left == clean_text(SubSeq(t, 1, c - 1))
             right == clean_text(From(t, c + Len(sep)))
         IN  IF c # 0 /\ left # "" /\ right # "" /\ Len(right) <= ORG_MAX
             THEN [title |-> left, org |-> right]
             ELSE SplitFrom(t, k + 1)

\* returns [title, org]
split_title_org(raw_title) == SplitFrom(clean_text(raw_title), 1)

Pad(n, w) == Repeat("0", w - Len(ToString(n))) \o ToString(n)

DaysIn(y, m) ==
    IF m = 2 THEN (IF (y % 4 = 0 /\ y % 100 # 0) \/ y % 400 = 0 THEN 29 ELSE 28)
    ELSE IF m \in {4, 6, 9, 11} THEN 30 ELSE 31

\* tm is published_parsed or updated_parsed as <<year, month, day>>, <<>>
\* when the entry has neither; datetime(...) raises on an invalid date
iso_date_from_entry(tm) ==
    IF tm = <<>> THEN ""
    ELSE IF tm[1] \in 1..9999 /\ tm[2] \in 1..12 /\ tm[3] \in 1..DaysIn(tm[1], tm[2])
         THEN Pad(tm[1], 4) \o "-" \o Pad(tm[2], 2) \o "-" \o Pad(tm[3], 2)
    ELSE ""

\* a feed entry: absent title, link and summary read as "" (getattr default),
\* content is NONE when the entry has none, tm as for iso_date_from_entry
Entry(title, link, summary, content, tm) ==
    [title |-> title, link |-> link, summary |-> summary, content |-> content, tm |-> tm]

\* body of an entry: full content when there is one, the summary otherwise
EntryBody(e) == IF e.content # NONE THEN clean_text(e.content) ELSE clean_text(e.summary)

\* the JobRow both feed adapters build from the parsed title p of entry e
FeedRow(e, p, state, sector) ==
    LET body == EntryBody(e)
        tfi == p.title \o " " \o p.org \o " " \o body
    IN  JobRow(IF p.title # "" THEN Take(p.title, TITLE_MAX)
               ELSE Take(clean_text(e.title), TITLE_MAX),
               IF p.org # "" THEN Take(p.org, TITLE_MAX) ELSE "Unknown",
               IF state # "" THEN state ELSE extract_state(tfi),
               sector, infer_remote_type(tfi), iso_date_from_entry(e.tm),
               Take(body, DESC_MAX)
                   \o (IF e.link # "" THEN "\n\n" \o SourceNote(e.link) ELSE ""),
               e.link)

\* the body of the for loop of scrape_archivesgig
GigRow(e) ==
    LET p == parse_archivesgig_title(e.title) IN FeedRow(e, p, p.state, "Other")

\* the body of the for loop of scrape_higheredjobs_feed
HejRow(e) ==
    LET p == split_title_org(e.title) IN FeedRow(e, p, "", "Academic")

-----------------------------------------------------------------------------
(* scrape_archivesgig and scrape_higheredjobs_feed                         *)

MaxEntries == 2

HEJ_FEED == "https://www.higheredjobs.com/rss/categoryFeed.cfm?catID=182"

\* the entries a feed may hold
EntrySet ==
    {Entry("Chicago, IL: Archivist, Newberry Library", "https://jobs.example/1",
           "Hybrid role", NONE, <<2026, 1, 22>>),
     Entry("Head Librarian - State University", "https://jobs.example/2",
           "short", "Full text. Remote, based in Austin, TX", <<2024, 2, 29>>),
     Entry("Remote:", "https://jobs.example/3", "On-site", NONE, <<>>),
     Entry(", Museum", "", "", NONE, <<2026, 2, 30>>),
     Entry("", "https://jobs.example/5", "An entry with no title", NONE, <<>>),
     Entry("   ", "", "", NONE, <<>>)}

\* GigRow and HejRow on each entry, computed once
GigRowOf == [e \in EntrySet |-> GigRow(e)]

HejRowOf == [e \in EntrySet |-> HejRow(e)]

InitFeeds ==
    /\ pc \in {"gig_loop", "hej_start"}
    /\ entries \in SeqsUpTo(EntrySet, MaxEntries)
    /\ max_items \in 0..MaxEntries
    /\ idx = 1 /\ rows = <<>>
    /\ max_pages = 0 /\ url = NONE /\ pages = 0 /\ postings = <<>> /\ next_url = NONE
    /\ listCalls = 0 /\ listFailed = FALSE
    /\ IdleFetch /\ IdleDedupe /\ IdlePure

\* one iteration of: for entry in (d.entries or [])[:max_items]
GigEntry ==
    /\ pc = "gig_loop"
    /\ idx <= Len(entries) /\ idx <= max_items
    /\ rows' = Append(rows, GigRowOf[entries[idx]])
    /\ idx' = idx + 1
    /\ UNCHANGED <<pc, fetchVars, max_pages, url, pages, postings, next_url, listCalls,
                   listFailed, feedVars, dedupeVars, pureVars>>

GigReturn ==
    /\ pc = "gig_loop"
    /\ ~(idx <= Len(entries) /\ idx <= max_items)
    /\ pc' = "done"
    /\ UNCHANGED <<fetchVars, arlVars, rows, feedVars, dedupeVars, pureVars>>

\* xml = fetch(feed_url)
HejStart ==
    /\ pc = "hej_start"
    /\ CallFetch(HEJ_FEED)
    /\ pc' = "hej_fetch"
    /\ UNCHANGED <<arlVars, rows, feedVars, dedupeVars, pureVars>>

\* except Exception: return rows
HejFetchFail ==
    /\ pc = "hej_fetch" /\ fstate = "raised"
    /\ pc' = "done"
    /\ UNCHANGED <<fetchVars, arlVars, rows, feedVars, dedupeVars, pureVars>>

\* d = feedparser.parse(xml); entries = d.entries or []
HejFetched ==
    /\ pc = "hej_fetch" /\ fstate = "returned"
    /\ pc' = "hej_loop"
    /\ UNCHANGED <<fetchVars, arlVars, rows, feedVars, dedupeVars, pureVars>>

\* one iteration of: for entry in entries[:max_items]
HejEntry ==
    /\ pc = "hej_loop"
    /\ idx <= Len(entries) /\ idx <= max_items
    /\ rows' = Append(rows, HejRowOf[entries[idx]])
    /\ idx' = idx + 1
    /\ UNCHANGED <<pc, fetchVars, max_pages, url, pages, postings, next_url, listCalls,
                   listFailed, feedVars, dedupeVars, pureVars>>

HejReturn ==
    /\ pc = "hej_loop"
    /\ ~(idx <= Len(entries) /\ idx <= max_items)
    /\ pc' = "done"
    /\ UNCHANGED <<fetchVars, arlVars, rows, feedVars, dedupeVars, pureVars>>

InitAdapters == InitArl \/ InitFeeds

NextAdapters ==
    \/ ArlNextPage
    \/ ArlReturn
    \/ FetchAttempt
    \/ FetchRaise
    \/ ArlListOk
    \/ ArlListFail
    \/ ArlDetailOk
    \/ ArlDetailFail
    \/ GigEntry
    \/ GigReturn
    \/ HejStart
    \/ HejFetchFail
    \/ HejFetched
    \/ HejEntry
    \/ HejReturn

\* each of the three adapters, run on its own
SpecAdapters == InitAdapters /\ [][NextAdapters]_vars

\* C8: every row an adapter (scrape_arl, scrape_archivesgig,
\* scrape_higheredjobs_feed) produces has a non-empty title.
C8_TitleNeverEmpty == \A i \in 1..Len(rows) : rows[i].title # ""

-----------------------------------------------------------------------------
(* dedupe_rows                                                             *)

MaxRows == 3

SENTINELS == {"unknown", "n/a", "-"}

dedupe_key_title_org_only(r) ==
    <<"job", canonicalize(r.title), canonicalize(r.organization)>>

dedupe_key_raw_url(r) ==
    LET org_key == canonicalize(r.organization)
    IN  IF org_key = "" \/ org_key \in SENTINELS
        THEN <<"url", r.apply_url>>
        ELSE <<"job", canonicalize(r.title), org_key>>

\* the key dedupe_rows files row r under
dedupe_key(r) ==
    LET org_key == canonicalize(r.organization)
    IN  IF org_key = "" \/ org_key \in SENTINELS
        THEN <<"url", canonicalize(r.apply_url)>>
        ELSE <<"job", canonicalize(r.title), org_key>>

Min(a, b) == IF a <= b THEN a ELSE b

score(x) ==
    (IF x.apply_url # "" THEN 3 ELSE 0)
    + (IF x.date_posted # "" THEN 2 ELSE 0)
    + (IF x.state # "" THEN 1 ELSE 0)
    + (IF x.remote_type # "" THEN 1 ELSE 0)
    + (IF x.salary_min # "" \/ x.salary_max # "" THEN 1 ELSE 0)
    + (Min(Len(x.description), 2000) \div 500)

replaces_on_tie(r, existing) == score(r) >= score(existing)

\* if score(r) > score(existing): uniq[key] = r
replaces(r, existing) == score(r) > score(existing)

Row(title, organization, apply_url, x) ==
    [title |-> title, organization |-> organization, state |-> x.state,
     sector |-> "Other", remote_type |-> x.remote_type,
     salary_min |-> x.salary_min, salary_max |-> x.salary_max,
     date_posted |-> x.date_posted, description |-> x.description,
     apply_url |-> apply_url]

TEXT_100 == Repeat("0123456789", 10)

TEXT_499 == Repeat(TEXT_100, 4) \o SubSeq(TEXT_100, 1, 99)

TEXT_500 == Repeat(TEXT_100, 5)

TEXT_2600 == Repeat(TEXT_500, 5) \o TEXT_100

\* nothing but the key fields: score 0 without a url
BARE ==
    [state |-> "", remote_type |-> "", salary_min |-> "", salary_max |-> "",
     date_posted |-> "", description |-> ""]

\* a date and 500 characters of description: score 3 without a url
DATED == [BARE EXCEPT !.date_posted = "2026-01-22", !.description = TEXT_500]

\* a lower salary bound only, 499 characters of description: score 1
PAID == [BARE EXCEPT !.salary_min = "40000", !.description = TEXT_499]

\* state, remote type, upper salary bound, a description over the cap: score 7
RICH ==
    [BARE EXCEPT !.state = "NY", !.remote_type = "Remote", !.salary_max = "50000",
                 !.description = TEXT_2600]

URL_1 == "https://jobs.example/1"

\* the rows dedupe_rows is run on
PostingSet ==
    {Row(t, o, u, x) : t \in {"Archivist", " ARCHIVIST  "},
                       o \in {"State Library", "Unknown"},
                       u \in {"", URL_1},
                       x \in {BARE, DATED}}
    \cup {Row("Archivist", "N/A", "", PAID),
          Row("Archivist", " ^ ", "HTTPS://jobs.example/1 ", RICH),
          Row("Curator", "", "https://jobs.example/2", PAID),
          Row("Curator", "state  LIBRARY", "", RICH)}

\* dedupe_key and the score comparison on the rows, computed once
KeyOf == [p \in PostingSet |-> dedupe_key(p)]

Replaces == [p \in PostingSet, q \in PostingSet |-> replaces(p, q)]

InitDedupe ==
    /\ pc = "dedupe_loop"
    /\ rows \in SeqsUpTo(PostingSet, MaxRows)
    /\ idx = 1 /\ uniq = <<>> /\ out = <<>> /\ slot = <<>>
    /\ max_pages = 0 /\ url = NONE /\ pages = 0 /\ postings = <<>> /\ next_url = NONE
    /\ listCalls = 0 /\ listFailed = FALSE
    /\ IdleFeeds /\ IdleFetch /\ IdlePure

\* the position of key k in uniq, 0 when uniq has no such key
SlotOf(k) ==
    IF \E j \in 1..Len(uniq) : uniq[j].key = k
    THEN CHOOSE j \in 1..Len(uniq) : uniq[j].key = k
    ELSE 0

\* one iteration of: for r in rows
DedupeRow ==
    /\ pc = "dedupe_loop"
    /\ idx <= Len(rows)
    /\ LET r == rows[idx]
           key == KeyOf[r]
           j == SlotOf(key)
       IN  IF j = 0
           THEN /\ uniq' = Append(uniq, [key |-> key, row |-> r])
                /\ slot' = Append(slot, Len(uniq) + 1)
           ELSE /\ uniq' = IF Replaces[r, uniq[j].row]
                           THEN [uniq EXCEPT ![j].row = r]
                           ELSE uniq
                /\ slot' = Append(slot, j)
    /\ idx' = idx + 1
    /\ UNCHANGED <<pc, rows, out, fetchVars, max_pages, url, pages, postings, next_url,
                   listCalls, listFailed, feedVars, pureVars>>

\* return list(uniq.values())
DedupeReturn ==
    /\ pc = "dedupe_loop"
    /\ idx > Len(rows)
    /\ out' = [j \in 1..Len(uniq) |-> uniq[j].row]
    /\ pc' = "done"
    /\ UNCHANGED <<rows, uniq, slot, fetchVars, arlVars, feedVars, pureVars>>

NextDedupe == DedupeRow \/ DedupeReturn

SpecDedupe == InitDedupe /\ [][NextDedupe]_vars

\* the organization of r is empty or a sentinel after canonicalization
Unresolved(r) ==
    canonicalize(r.organization) = "" \/ canonicalize(r.organization) \in {"unknown", "n/a", "-"}

\* the DedupKey of r: (title, organization) when the organization is
\* resolved, (apply_url) otherwise, all canonicalized
DedupKey(r) ==
    IF Unresolved(r)
    THEN <<canonicalize(r.apply_url)>>
    ELSE <<canonicalize(r.title), canonicalize(r.organization)>>

DedupKeyOf == [p \in PostingSet |-> DedupKey(p)]

UnresolvedOf == [p \in PostingSet |-> Unresolved(p)]

CanonUrlOf == [p \in PostingSet |-> canonicalize(p.apply_url)]

\* the completeness score: +3 apply_url, +2 date_posted, +1 state,
\* +1 remote_type, +1 either salary bound, + min(len(description), 2000) // 500
Completeness(r) ==
    LET n == Len(r.description)
        bonus == IF n >= 2000 THEN 4 ELSE IF n >= 1500 THEN 3 ELSE IF n >= 1000 THEN 2
                 ELSE IF n >= 500 THEN 1 ELSE 0
        Has(b) == IF b THEN 1 ELSE 0
    IN  3 * Has(r.apply_url # "") + 2 * Has(r.date_posted # "")
        + Has(r.state # "") + Has(r.remote_type # "")
        + Has(r.salary_min # "" \/ r.salary_max # "") + bonus

CompletenessOf == [p \in PostingSet |-> Completeness(p)]

\* the positions of the input rows that share the DedupKey k
Group(k) == {i \in 1..Len(rows) : DedupKeyOf[rows[i]] = k}

\* the earliest position of Group(k) with the highest completeness score
Best(k) ==
    CHOOSE i \in Group(k) :
        \A j \in Group(k) :
            \/ CompletenessOf[rows[j]] < CompletenessOf[rows[i]]
            \/ CompletenessOf[rows[j]] = CompletenessOf[rows[i]] /\ i <= j

\* C5: the output of dedupe_rows holds exactly one row for each DedupKey of
\* the input: every input key is the key of an output row, every output row
\* is an input row, and no two output rows share a key.
C5_OnePerKey ==
    pc = "done" =>
        /\ \A i \in 1..Len(rows) : \E j \in 1..Len(out) : DedupKeyOf[out[j]] = DedupKeyOf[rows[i]]
        /\ \A j \in 1..Len(out) : \E i \in 1..Len(rows) : out[j] = rows[i]
        /\ \A j, k \in 1..Len(out) : j # k => DedupKeyOf[out[j]] # DedupKeyOf[out[k]]

\* three rows, two url variants of one unresolved key and a resolved row
C5_Witness ==
    /\ pc = "done" /\ Len(rows) = 3 /\ Len(out) = 2
    /\ UnresolvedOf[rows[1]] /\ UnresolvedOf[rows[2]] /\ ~UnresolvedOf[rows[3]]
    /\ rows[1].apply_url # rows[2].apply_url /\ rows[1].apply_url # ""
    /\ CanonUrlOf[rows[1]] = CanonUrlOf[rows[2]]

\* C6: of the input rows that share a DedupKey, the row kept is the earliest
\* one with the highest completeness score, unchanged.
C6_BestFirstKept ==
    pc = "done" => \A j \in 1..Len(out) : out[j] = rows[Best(DedupKeyOf[out[j]])]

\* a group of three: the first scores lower, the next two tie at the top
C6_Witness ==
    /\ pc = "done" /\ Len(rows) = 3 /\ Len(out) = 1
    /\ CompletenessOf[rows[1]] < CompletenessOf[rows[2]]
    /\ CompletenessOf[rows[2]] = CompletenessOf[rows[3]]
    /\ rows[2] # rows[3]
    /\ out[1] = rows[2]

\* C7: a row whose organization is unresolved goes to the same slot as
\* another row only when their canonicalized apply_urls are equal, whatever
\* their titles and organizations.
C7_UnresolvedMergedByUrlOnly ==
    \A i, k \in 1..Len(slot) :
        (i # k /\ UnresolvedOf[rows[i]] /\ slot[i] = slot[k]) =>
            CanonUrlOf[rows[i]] = CanonUrlOf[rows[k]]

\* same title, same sentinel organization, different urls: kept apart; a
\* third row with the url of the first: merged with it
C7_Witness ==
    /\ pc = "done" /\ Len(rows) = 3
    /\ UnresolvedOf[rows[1]] /\ rows[1].title = rows[2].title
    /\ rows[1].organization = rows[2].organization
    /\ CanonUrlOf[rows[1]] # CanonUrlOf[rows[2]]
    /\ slot[1] # slot[2]
    /\ rows[3].title # rows[1].title /\ slot[3] = slot[1]

-----------------------------------------------------------------------------
(* infer_remote_type applied to bounded texts                              *)

MaxChunks == 3

InferChunks == {"remote", "REMOTE ", "hybrid", "Hybrid ", "fully ", "100% ", "on-site", "x "}

InferTexts == {Concat(ss) : ss \in SeqsUpTo(InferChunks, MaxChunks)}

InitInfer ==
    /\ pc = "infer" /\ text \in InferTexts /\ result = NONE
    /\ rows = <<>>
    /\ IdleFeeds /\ IdleFetch /\ IdleArl /\ IdleDedupe

InferRemoteType ==
    /\ pc = "infer"
    /\ result' = infer_remote_type(text)
    /\ pc' = "done"
    /\ UNCHANGED <<text, rows, feedVars, fetchVars, arlVars, dedupeVars>>

NextInfer == InferRemoteType

SpecInfer == InitInfer /\ [][NextInfer]_vars

\* s contains p, ignoring case
HasCI(s, p) ==
    \E i \in 1..(Len(s) - Len(p) + 1) : lower(SubSeq(s, i, i + Len(p) - 1)) = lower(p)

RemoteAndHybrid(s) ==
    /\ HasCI(s, "remote") /\ HasCI(s, "hybrid")
    /\ ~HasCI(s, "fully remote") /\ ~HasCI(s, "100% remote")

\* C9: a text that contains both "remote" and "hybrid" and neither
\* "fully remote" nor "100% remote" is classified Hybrid, and every result
\* is one of Remote, Hybrid, Onsite or the empty string.
C9_HybridBeforeRemote ==
    pc = "done" =>
        /\ result \in {"Remote", "Hybrid", "Onsite", ""}
        /\ RemoteAndHybrid(text) => result = "Hybrid"

C9_Witness == pc = "done" /\ RemoteAndHybrid(text) /\ result = "Hybrid"

-----------------------------------------------------------------------------
(* extract_state applied to bounded texts                                  *)

MaxTextLen == 5

StateChars == {"C", "A", "T", " ", "a"}

StateTexts == {Concat(ss) : ss \in SeqsUpTo(StateChars, MaxTextLen)}

InitExtract ==
    /\ pc = "extract" /\ text \in StateTexts /\ result = NONE
    /\ rows = <<>>
    /\ IdleFeeds /\ IdleFetch /\ IdleArl /\ IdleDedupe

ExtractState ==
    /\ pc = "extract"
    /\ result' = extract_state(text)
    /\ pc' = "done"
    /\ UNCHANGED <<text, rows, feedVars, fetchVars, arlVars, dedupeVars>>

NextExtract == ExtractState

SpecExtract == InitExtract /\ [][NextExtract]_vars

\* the bare two-letter uppercase tokens of s that are state codes, by position
MemberTokens(s) ==
    {i \in 1..Len(s) : TokenAt(s, i) /\ SubSeq(s, i, i + 1) \in STATE_ABBR}

\* C10: extract_state returns the first bare two-letter uppercase token that
\* is a member of the 51-entry set, the empty string only when the text has
\* no such token, and never a non-empty value outside the set.
C10_FirstMemberToken ==
    pc = "done" =>
        /\ result = "" \/ result \in STATE_ABBR
        /\ MemberTokens(text) = {} => result = ""
        /\ MemberTokens(text) # {} =>
              LET i == CHOOSE i \in MemberTokens(text) : \A j \in MemberTokens(text) : i <= j
              IN  result = SubSeq(text, i, i + 1)

\* the part of C10 the code keeps: the result is empty or a member of the set
C10_InSet == pc = "done" => (result = "" \/ result \in STATE_ABBR)

=============================================================================
